---- MODULE Spec2Model ----
(***************************************************************************)
(* Model of the WebSocketService connection engine                         *)
(* (services/websocket: connect, disconnect, the socket callbacks, the     *)
(* reconnect loop) together with the browser's WebSocket and timer         *)
(* objects it drives.                                                      *)
(*                                                                         *)
(* Every method of the class is an operator from a machine record (the     *)
(* fields of the instance, the sockets and the timers of the page) to the  *)
(* machine record after the call, so that a handler that calls other       *)
(* methods is the composition of their operators.  An action of the model  *)
(* is one task of the event loop: a public call, one socket event with the *)
(* callbacks it runs, or one timer firing.  Consumers register observers   *)
(* and call send(); an observer is modelled by what it does when called.   *)
(*                                                                         *)
(* The transport is the one the service is written against: a socket that  *)
(* is connecting or open may open, deliver a frame, end with a close event *)
(* (code 1000 or another code), or fail, which a browser reports as an     *)
(* error event followed by a close event with code 1006 in the same task.  *)
(* Timers fire in any order: the model keeps no clock.                     *)
(***************************************************************************)
EXTENDS Integers, Sequences, FiniteSets, TLC

VARIABLES
    ws,                 \* this.ws: 0 (null) or the slot of a socket
    gameId,             \* this.gameId
    initData,           \* this.initData
    reconnectAttempts,  \* this.reconnectAttempts
    reconnectTimeout,   \* this.reconnectTimeout: 0 (null) or a timer handle
    state,              \* this.state, the snapshot handed to observers
    sockets,            \* the WebSocket objects created by the service
    timers,             \* the setTimeout timers created by the service
    urlOk,              \* whether new WebSocket(url) accepts the endpoint URL
    notified,           \* snapshots given to state observers by the last task
    dispatched,         \* messages given to message observers by the last task
    sent,               \* frames handed to a socket's send() by the last task
    scheduled,          \* delays passed to setTimeout by the last task
    lastCall,           \* the last public call: "none", "connect", "disconnect"
    lastEvent,          \* what the last task was
    closures,           \* abnormal closures in a row since connect()/open
    stateHandlers,      \* this.stateHandlers, in insertion order
    messageHandlers,    \* this.messageHandlers, in insertion order
    delivered,          \* calls of state observers made by the last task
    received,           \* calls of message observers made by the last task
    returned,           \* values returned by send() in the last task
    thrown,             \* whether the last task's call threw to its caller
    calls,              \* methods of the service run by the last task
    watchedGameId,      \* router: the target its watcher saw last
    unsubscribeMessage, \* router: whether it holds an unsubscribe function
    unsubscribers,      \* the unsubscribe functions that consumers hold
    lastProcessed,      \* the stamp of the last message given to observers
    reservationUpdates, \* useGamesAPI: reservationUpdates, the pushed records
    gamesQueryData,     \* useGamesAPI: the reservation in gamesQuery.data
    reservations,       \* useReservation: its reservations map
    invalidated,        \* whether the last task called invalidateQueries
    now,                \* the clock that new Date() reads
    lastMessage,        \* the message the consumers handled in the last task
    newest              \* per consumer and game, the latest stamp handled

vars == <<ws, gameId, initData, reconnectAttempts, reconnectTimeout, state,
          sockets, timers, urlOk, notified, dispatched, sent, scheduled,
          lastCall, lastEvent, closures, stateHandlers, messageHandlers,
          delivered, received, returned, thrown, calls, watchedGameId,
          unsubscribeMessage, unsubscribers, lastProcessed,
          reservationUpdates,
          gamesQueryData,
          reservations, invalidated, now, lastMessage, newest>>

\* the state of the consumers' reservation caches
cacheVars == <<reservationUpdates, gamesQueryData, reservations, invalidated,
               now, lastMessage, newest>>

\* the state of the service and of the router
serviceVars == <<ws, gameId, initData, reconnectAttempts, reconnectTimeout,
                 state, sockets, timers, urlOk, notified, dispatched, sent,
                 scheduled, lastCall, lastEvent, closures, stateHandlers,
                 messageHandlers, delivered, received, returned, thrown,
                 calls, watchedGameId, unsubscribeMessage, unsubscribers,
                 lastProcessed>>

----------------------------------------------------------------------------
(* Bounds of the model *)

\* WebSocket objects that are connecting or open at the same time
MaxSockets == 2
\* timer handles in use at the same time (pending, or held in reconnectTimeout)
MaxTimers == 2
\* the closure counter stops counting here
MaxClosures == 7
\* observers registered in one observer set
MaxObservers == 2

(* Program constants *)

MAX_RECONNECT_ATTEMPTS == 5
INITIAL_RECONNECT_DELAY == 1000
MAX_RECONNECT_DELAY == 30000
NORMAL_CLOSURE == 1000
ABNORMAL_CLOSURE == 1006

NoSocket == 0
NoTimer == 0
NullGame == 0
\* the number 0 as a target (NullGame stands for null), and the old value
\* undefined that a watcher is given on its first run
ZeroGame == -1
UndefinedGame == -2
NullDate == 0
SomeDate == 1
\* the Date of an open after a consumer called setTime() on it
MutatedDate == 2
NullError == "null"
\* the last_event_timestamp of a sync_request that was given none
UndefinedStamp == 0
\* the timestamps of the server's messages
Stamps == {1, 2}

\* the one message a client sends
ClientSyncRequest(lastEventTimestamp) ==
    [type |-> "sync_request", last_event_timestamp |-> lastEventTimestamp]

SocketIds == 1..MaxSockets
TimerIds == 1..MaxTimers
GameIds == {42}
\* the targets a page gives to the router
RouterTargets == {NullGame, ZeroGame, 42, 43}
InitDatas == {"tok"}
CloseCodes == {NORMAL_CLOSURE, ABNORMAL_CLOSURE}
Frames == {"game_state_update", "malformed"}

\* the type tags of the messages a server sends (WSMessage)
WebSocketMessageType ==
    {"game_state_update", "reservation_created", "reservation_released",
     "sync_response", "error"}

\* further frames: the JSON text of an error message of the server, and a
\* JSON text that parses but holds no message of WSMessage
OtherFrames == {"error", "unknown_type"}

\* the observer functions of the consumers, named by what they do when they
\* are called: one returns, one throws, one (a state observer) calls
\* disconnect() when it is shown the status Failed
Passive == "passive"
Throwing == "throws"
Reentrant == "reentrant"
\* a state observer that writes into the snapshot it is given: it assigns
\* the field status and calls setTime() on the Date in lastConnectedAt
Mutating == "mutates"
Handlers == {Passive, Throwing, Reentrant, Mutating}

\* the function that onStateChange(handler) or onMessage(handler) returned
\* last, as its consumer holds it: there is none, it was not called yet, or
\* it was called
NoFunction == "none"
Fresh == "fresh"
Called == "called"
\* the message observer of the router
RouterObserver == "handleWebSocketMessage"

Min(a, b) == IF a <= b THEN a ELSE b

RECURSIVE Pow2(_)
Pow2(n) == IF n <= 0 THEN 1 ELSE 2 * Pow2(n - 1)

----------------------------------------------------------------------------
(* The machine record *)

ClosedSocket ==
    [readyState |-> "CLOSED", onopen |-> FALSE, onmessage |-> FALSE,
     onclose |-> FALSE, onerror |-> FALSE, superseded |-> FALSE]

IdleTimer == [pending |-> FALSE, superseded |-> FALSE]

InitialState ==
    [status |-> "disconnected", gameId |-> NullGame, clientId |-> "cid",
     lastConnectedAt |-> NullDate, reconnectAttempts |-> 0, error |-> NullError]

\* the machine before a task: the instance, the page's sockets and timers,
\* and the empty logs of the task
Cur(sup) ==
    [ws |-> ws, gameId |-> gameId, initData |-> initData,
     reconnectAttempts |-> reconnectAttempts,
     reconnectTimeout |-> reconnectTimeout, state |-> state,
     sockets |-> sockets, timers |-> timers, urlOk |-> urlOk,
     notified |-> <<>>, dispatched |-> <<>>, sent |-> <<>>,
     scheduled |-> <<>>,
     stateHandlers |-> stateHandlers, messageHandlers |-> messageHandlers,
     delivered |-> <<>>, received |-> <<>>, returned |-> <<>>,
     txFails |-> FALSE, thrown |-> FALSE, calls |-> <<>>,
     copyMutated |-> FALSE,
     watchedGameId |-> watchedGameId,
     unsubscribeMessage |-> unsubscribeMessage,
     unsubscribers |-> unsubscribers,
     lastProcessed |-> lastProcessed,
     sup |-> sup, overflow |-> FALSE]

----------------------------------------------------------------------------
(* Observers *)

\* { ...this.state }: a new object with the fields of this.state; the Date
\* in lastConnectedAt is not copied, the new object refers to the same one
getState(m) == m.state

\* a snapshot after a consumer wrote into it: snapshot.status = "mutated"
\* and snapshot.lastConnectedAt?.setTime(0)
MutateCopy(stateCopy) ==
    [stateCopy EXCEPT !.status = "mutated",
                      !.lastConnectedAt = IF @ = NullDate THEN NullDate
                                          ELSE MutatedDate]

\* what setTime() on the Date of a snapshot does to the service: the Date
\* is the one that this.state.lastConnectedAt refers to
MutateSharedDate(m) ==
    [m EXCEPT !.state.lastConnectedAt = IF @ = NullDate THEN NullDate
                                        ELSE MutatedDate]

Range(seq) == {seq[i] : i \in 1..Len(seq)}

\* Set.add: a function that is in the set already is not added again
SetAdd(seq, handler) ==
    IF handler \in Range(seq) THEN seq ELSE Append(seq, handler)

\* Set.delete
SetDelete(seq, handler) ==
    LET Others(h) == h # handler
    IN SelectSeq(seq, Others)

RECURSIVE disconnect(_)

\* handler(stateCopy) for the i-th state observer, during broadcast number k
\* of the task (k = 0: the call made by onStateChange itself)
callStateHandler(m, i, stateCopy, k) ==
    LET m1 == [m EXCEPT !.delivered =
                   Append(@, [to |-> m.stateHandlers[i],
                              snap |-> IF m.copyMutated
                                       THEN MutateCopy(stateCopy)
                                       ELSE stateCopy,
                              tag |-> k])]
    IN IF m.stateHandlers[i] = Throwing
       THEN [m1 EXCEPT !.thrown = TRUE]
       ELSE IF m.stateHandlers[i] = Mutating
       THEN [MutateSharedDate(m1) EXCEPT !.copyMutated = TRUE]
       ELSE IF m.stateHandlers[i] = Reentrant /\ stateCopy.status = "failed"
            THEN disconnect(m1)
            ELSE m1

\* the loop of notifyStateHandlers without its try/catch: an observer that
\* throws ends the loop
RECURSIVE forEachStateHandler_noCatch(_, _, _, _)
forEachStateHandler_noCatch(m, stateCopy, k, i) ==
    IF i > Len(m.stateHandlers)
    THEN m
    ELSE LET m1 == callStateHandler(m, i, stateCopy, k)
         IN IF m1.thrown
            THEN m1
            ELSE forEachStateHandler_noCatch(m1, stateCopy, k, i + 1)

\* the loop of notifyStateHandlers from the i-th observer on; what an
\* observer throws is caught
RECURSIVE forEachStateHandler(_, _, _, _)
forEachStateHandler(m, stateCopy, k, i) ==
    IF i > Len(m.stateHandlers)
    THEN m
    ELSE LET m1 == callStateHandler(m, i, stateCopy, k)
         IN forEachStateHandler([m1 EXCEPT !.thrown = FALSE],
                                stateCopy, k, i + 1)

notifyStateHandlers(m) ==
    LET stateCopy == getState(m)
        m1 == [m EXCEPT !.notified = Append(@, stateCopy),
                        !.copyMutated = FALSE]
    IN forEachStateHandler(m1, stateCopy, Len(m1.notified), 1)

updateState(m, partial) ==
    notifyStateHandlers(
        [m EXCEPT !.state = [f \in DOMAIN m.state |->
                               IF f \in DOMAIN partial THEN partial[f]
                               ELSE m.state[f]]])

\* handler(message) for the i-th message observer
callMessageHandler(m, i, message) ==
    [m EXCEPT !.received = Append(@, [to |-> m.messageHandlers[i],
                                      message |-> message]),
              !.thrown = (m.messageHandlers[i] = Throwing)]

\* the loop of notifyMessageHandlers without its try/catch
RECURSIVE forEachMessageHandler_noCatch(_, _, _)
forEachMessageHandler_noCatch(m, message, i) ==
    IF i > Len(m.messageHandlers)
    THEN m
    ELSE LET m1 == callMessageHandler(m, i, message)
         IN IF m1.thrown
            THEN m1
            ELSE forEachMessageHandler_noCatch(m1, message, i + 1)

\* the loop of notifyMessageHandlers from the i-th observer on; what an
\* observer throws is caught
RECURSIVE forEachMessageHandler(_, _, _)
forEachMessageHandler(m, message, i) ==
    IF i > Len(m.messageHandlers)
    THEN m
    ELSE LET m1 == callMessageHandler(m, i, message)
         IN forEachMessageHandler([m1 EXCEPT !.thrown = FALSE],
                                  message, i + 1)

notifyMessageHandlers(m, message) ==
    forEachMessageHandler([m EXCEPT !.dispatched = Append(@, message)],
                          message, 1)

\* onStateChange that only adds the observer
onStateChange_noReplay(m, handler) ==
    [m EXCEPT !.stateHandlers = SetAdd(@, handler)]

\* the position of a function in an observer set
IndexOf(seq, handler) == CHOOSE i \in 1..Len(seq) : seq[i] = handler

\* onStateChange(handler): the observer is added and called with the
\* current snapshot; the call is not guarded, so what the observer throws
\* reaches the caller, after the observer was added
onStateChange(m, handler) ==
    LET m1 == [m EXCEPT !.stateHandlers = SetAdd(@, handler)]
    IN callStateHandler(m1, IndexOf(m1.stateHandlers, handler),
                        getState(m1), 0)

onMessage(m, handler) ==
    [m EXCEPT !.messageHandlers = SetAdd(@, handler),
              !.calls = Append(@, "onMessage")]

\* an unsubscribe function that removes by position, as splice(indexOf())
\* does on an array: when the handler is not there the last one is removed
unsubscribeMessageHandler_splice(m, handler) ==
    [m EXCEPT !.messageHandlers =
                 IF handler \in Range(@) THEN SetDelete(@, handler)
                 ELSE SubSeq(@, 1, Len(@) - 1),
              !.returned = Append(@, handler \in Range(m.messageHandlers)),
              !.calls = Append(@, "unsubscribe")]

\* the function returned by onMessage(handler); Set.delete returns whether
\* the handler was in the set
unsubscribeMessageHandler(m, handler) ==
    [m EXCEPT !.messageHandlers = SetDelete(@, handler),
              !.returned = Append(@, handler \in Range(m.messageHandlers)),
              !.calls = Append(@, "unsubscribe")]

\* the function returned by onStateChange(handler)
unsubscribeStateHandler(m, handler) ==
    [m EXCEPT !.stateHandlers = SetDelete(@, handler),
              !.returned = Append(@, handler \in Range(m.stateHandlers)),
              !.calls = Append(@, "unsubscribe")]

----------------------------------------------------------------------------
(* Timers *)

clearReconnectTimeout(m) ==
    IF m.reconnectTimeout # NoTimer
    THEN [m EXCEPT !.timers[m.reconnectTimeout] = IdleTimer,
                   !.reconnectTimeout = NoTimer]
    ELSE m

\* setTimeout returns a handle that no pending timer and no stored handle uses
FreeTimers(m) ==
    {t \in TimerIds : ~m.timers[t].pending /\ t # m.reconnectTimeout}

setTimeout(m, delay) ==
    IF FreeTimers(m) = {}
    THEN [m EXCEPT !.overflow = TRUE]
    ELSE LET t == CHOOSE x \in FreeTimers(m) : \A y \in FreeTimers(m) : x <= y
         IN [m EXCEPT !.timers[t] = [pending |-> TRUE,
                                     superseded |-> m.sup],
                      !.scheduled = Append(@, delay),
                      !.reconnectTimeout = t]

\* the delay with the exponent one too high
ReconnectDelay_doubled(n) ==
    Min(INITIAL_RECONNECT_DELAY * Pow2(n), MAX_RECONNECT_DELAY)

\* the delay growing by one second per attempt instead of doubling
ReconnectDelay_linear(n) ==
    Min(INITIAL_RECONNECT_DELAY * n, MAX_RECONNECT_DELAY)

ReconnectDelay(n) ==
    Min(INITIAL_RECONNECT_DELAY * Pow2(n - 1), MAX_RECONNECT_DELAY)

\* attemptReconnect giving up one attempt too late (> for >=)
attemptReconnect_late(m) ==
    IF m.reconnectAttempts > MAX_RECONNECT_ATTEMPTS
    THEN updateState(m, [status |-> "failed",
                         error |-> "Failed to reconnect after maximum attempts"])
    ELSE LET n  == m.reconnectAttempts + 1
             m1 == [m EXCEPT !.reconnectAttempts = n]
             m2 == updateState(m1, [status |-> "reconnecting",
                                    reconnectAttempts |-> n])
         IN setTimeout(m2, ReconnectDelay(n))

\* attemptReconnect that never gives up: at the limit it schedules one more
\* attempt with the longest delay
attemptReconnect_forever(m) ==
    LET n  == Min(m.reconnectAttempts + 1, MAX_RECONNECT_ATTEMPTS)
        m1 == [m EXCEPT !.reconnectAttempts = n]
        m2 == updateState(m1, [status |-> "reconnecting",
                               reconnectAttempts |-> n])
    IN setTimeout(m2, ReconnectDelay(n))

\* attemptReconnect that publishes the number of attempts made before
\* this one
attemptReconnect_countsBefore(m) ==
    IF m.reconnectAttempts >= MAX_RECONNECT_ATTEMPTS
    THEN updateState(m, [status |-> "failed",
                         error |-> "Failed to reconnect after maximum attempts"])
    ELSE LET n  == m.reconnectAttempts + 1
             m1 == [m EXCEPT !.reconnectAttempts = n]
             m2 == updateState(m1, [status |-> "reconnecting",
                                    reconnectAttempts |-> n - 1])
         IN setTimeout(m2, ReconnectDelay(n))

attemptReconnect(m) ==
    IF m.reconnectAttempts >= MAX_RECONNECT_ATTEMPTS
    THEN updateState(m, [status |-> "failed",
                         error |-> "Failed to reconnect after maximum attempts"])
    ELSE LET n  == m.reconnectAttempts + 1
             m1 == [m EXCEPT !.reconnectAttempts = n]
             m2 == updateState(m1, [status |-> "reconnecting",
                                    reconnectAttempts |-> n])
         IN setTimeout(m2, ReconnectDelay(n))

----------------------------------------------------------------------------
(* Handlers *)

handleConnectionError(m, errorMessage) ==
    LET m1 == updateState(m, [error |-> errorMessage])
    IN IF m1.state.status \in {"connecting", "reconnecting"}
       THEN attemptReconnect(m1)
       ELSE m1

handleDisconnect(m, code) ==
    LET m1 == [m EXCEPT !.ws = NoSocket]
    IN IF code = NORMAL_CLOSURE
       THEN updateState(m1, [status |-> "disconnected", error |-> NullError])
       ELSE IF m1.state.status # "disconnected"
            THEN attemptReconnect(m1)
            ELSE m1

\* send that only tests that there is a socket
send_anySocket(m, message) ==
    IF m.ws = NoSocket
    THEN [m EXCEPT !.returned = Append(@, FALSE)]
    ELSE IF m.txFails
         THEN [m EXCEPT !.returned = Append(@, FALSE)]
         ELSE [m EXCEPT !.sent = Append(@, message),
                        !.returned = Append(@, TRUE)]

\* send without its try/catch: what the transmit throws reaches the caller
send_noCatch(m, message) ==
    IF m.ws = NoSocket \/ m.sockets[m.ws].readyState # "OPEN"
    THEN [m EXCEPT !.returned = Append(@, FALSE)]
    ELSE IF m.txFails
         THEN [m EXCEPT !.thrown = TRUE]
         ELSE [m EXCEPT !.sent = Append(@, message),
                        !.returned = Append(@, TRUE)]

send(m, message) ==
    IF m.ws = NoSocket \/ m.sockets[m.ws].readyState # "OPEN"
    THEN [m EXCEPT !.returned = Append(@, FALSE)]
    ELSE IF m.txFails
         THEN [m EXCEPT !.returned = Append(@, FALSE)]
         ELSE [m EXCEPT !.sent = Append(@, message),
                        !.returned = Append(@, TRUE)]

\* sendSyncRequest(lastEventTimestamp?)
sendSyncRequest(m, lastEventTimestamp) ==
    send(m, ClientSyncRequest(lastEventTimestamp))

\* onopen that publishes Connected but leaves the attempt counter alone
onopen_keepsCount(m) ==
    LET m2 == updateState(m, [status |-> "connected",
                              lastConnectedAt |-> SomeDate,
                              reconnectAttempts |-> 0,
                              error |-> NullError])
    IN IF m2.state.lastConnectedAt # NullDate
       THEN sendSyncRequest(m2, UndefinedStamp)
       ELSE m2

onopen(m) ==
    LET m1 == [m EXCEPT !.reconnectAttempts = 0]
        m2 == updateState(m1, [status |-> "connected",
                               lastConnectedAt |-> SomeDate,
                               reconnectAttempts |-> 0,
                               error |-> NullError])
    IN IF m2.state.lastConnectedAt # NullDate
       THEN sendSyncRequest(m2, UndefinedStamp)
       ELSE m2

\* onmessage that takes a message of type error for a connection error
onmessage_errorFails(m, frame) ==
    IF frame = "malformed"
    THEN m
    ELSE IF frame = "error"
         THEN handleConnectionError(notifyMessageHandlers(m, frame),
                                    "Connection error")
         ELSE notifyMessageHandlers(m, frame)

onmessage(m, frame) ==
    IF frame = "malformed"
    THEN m
    ELSE notifyMessageHandlers(m, frame)

----------------------------------------------------------------------------
(* Connections *)

FreeSockets(m) == {s \in SocketIds : m.sockets[s].readyState = "CLOSED"}

\* createConnection that publishes Connecting before it builds the socket
createConnection_connecting(m) ==
    LET m0 == updateState([m EXCEPT !.calls = Append(@, "createConnection")],
                          [status |-> "connecting"])
    IN IF ~m0.urlOk
       THEN handleConnectionError(m0, "SyntaxError")
       ELSE IF FreeSockets(m0) = {}
            THEN [m0 EXCEPT !.overflow = TRUE]
            ELSE LET s == CHOOSE x \in FreeSockets(m0) :
                             \A y \in FreeSockets(m0) : x <= y
                 IN [m0 EXCEPT !.ws = s,
                               !.sockets[s] =
                                   [readyState |-> "CONNECTING", onopen |-> TRUE,
                                    onmessage |-> TRUE, onclose |-> TRUE,
                                    onerror |-> TRUE, superseded |-> m0.sup]]

createConnection(m) ==
    LET m0 == [m EXCEPT !.calls = Append(@, "createConnection")]
    IN IF ~m0.urlOk
       THEN handleConnectionError(m0, "SyntaxError")
       ELSE IF FreeSockets(m0) = {}
            THEN [m0 EXCEPT !.overflow = TRUE]
            ELSE LET s == CHOOSE x \in FreeSockets(m0) :
                             \A y \in FreeSockets(m0) : x <= y
                 IN [m0 EXCEPT !.ws = s,
                               !.sockets[s] =
                                   [readyState |-> "CONNECTING", onopen |-> TRUE,
                                    onmessage |-> TRUE, onclose |-> TRUE,
                                    onerror |-> TRUE, superseded |-> m0.sup]]

\* WebSocket.close().  Once close() was called the browser delivers no open
\* and no message event any more, and disconnect() has removed the close and
\* error callbacks before it calls close(): the socket can run no callback of
\* the service again, and its slot is released at once.
close(sock) == ClosedSocket

\* disconnect that forgets to clear the target and the credential
disconnect_keepsTarget(m) ==
    LET m1 == clearReconnectTimeout(
                  [m EXCEPT !.calls = Append(@, "disconnect")])
        m2 == IF m1.ws # NoSocket
              THEN [m1 EXCEPT !.sockets[m1.ws] =
                                  close([@ EXCEPT !.onclose = FALSE,
                                                  !.onerror = FALSE]),
                              !.ws = NoSocket]
              ELSE m1
        m3 == [m2 EXCEPT !.reconnectAttempts = 0]
    IN updateState(m3, [status |-> "disconnected", error |-> NullError])

disconnect(m) ==
    LET m1 == clearReconnectTimeout(
                  [m EXCEPT !.calls = Append(@, "disconnect")])
        m2 == IF m1.ws # NoSocket
              THEN [m1 EXCEPT !.sockets[m1.ws] =
                                  close([@ EXCEPT !.onclose = FALSE,
                                                  !.onerror = FALSE]),
                              !.ws = NoSocket]
              ELSE m1
        m3 == [m2 EXCEPT !.gameId = NullGame, !.initData = "",
                         !.reconnectAttempts = 0]
    IN updateState(m3, [status |-> "disconnected", gameId |-> NullGame,
                        error |-> NullError])

\* connect() that publishes a snapshot without the time of the last open
connect_forgets(m, g, d) ==
    LET m1 == disconnect([m EXCEPT !.calls = Append(@, "connect")])
        m2 == [m1 EXCEPT !.gameId = g, !.initData = d,
                         !.reconnectAttempts = 0]
        m3 == updateState(m2, [status |-> "connecting", gameId |-> g,
                               lastConnectedAt |-> NullDate,
                               error |-> NullError])
    IN createConnection(m3)

connect(m, g, d) ==
    LET m1 == disconnect([m EXCEPT !.calls = Append(@, "connect")])
        m2 == [m1 EXCEPT !.gameId = g, !.initData = d,
                         !.reconnectAttempts = 0]
        m3 == updateState(m2, [status |-> "connecting", gameId |-> g,
                               error |-> NullError])
    IN createConnection(m3)

----------------------------------------------------------------------------
(* The subscription router (the watcher of watchedGameId) *)

\* if (newGameId)
Truthy(g) == g \notin {NullGame, ZeroGame, UndefinedGame}

\* the callback of watch(watchedGameId, ...), with the credential that
\* getInitData() returns
watchGameId(m, newGameId, d) ==
    IF newGameId = m.watchedGameId
    THEN m
    ELSE LET m0 == [m EXCEPT !.watchedGameId = newGameId]
             m1 == IF m0.unsubscribeMessage
                   THEN [unsubscribeMessageHandler(m0, RouterObserver)
                            EXCEPT !.unsubscribeMessage = FALSE]
                   ELSE m0
         IN IF Truthy(newGameId)
            THEN [onMessage(connect(m1, newGameId, d), RouterObserver)
                     EXCEPT !.unsubscribeMessage = TRUE]
            ELSE disconnect(m1)

----------------------------------------------------------------------------
(* Tasks of the event loop *)

\* a public call ends every attempt made so far
Supersede(m) ==
    [m EXCEPT !.sockets = [s \in SocketIds |->
                             IF m.sockets[s].readyState = "CLOSED"
                             THEN m.sockets[s]
                             ELSE [m.sockets[s] EXCEPT !.superseded = TRUE]],
              !.timers = [t \in TimerIds |->
                             IF m.timers[t].pending
                             THEN [m.timers[t] EXCEPT !.superseded = TRUE]
                             ELSE m.timers[t]]]

Commit(r) ==
    /\ ~r.overflow
    /\ ws' = r.ws
    /\ gameId' = r.gameId
    /\ initData' = r.initData
    /\ reconnectAttempts' = r.reconnectAttempts
    /\ reconnectTimeout' = r.reconnectTimeout
    /\ state' = r.state
    /\ sockets' = r.sockets
    /\ timers' = r.timers
    /\ notified' = r.notified
    /\ dispatched' = r.dispatched
    /\ sent' = r.sent
    /\ scheduled' = r.scheduled
    /\ stateHandlers' = r.stateHandlers
    /\ messageHandlers' = r.messageHandlers
    /\ delivered' = r.delivered
    /\ received' = r.received
    /\ returned' = r.returned
    /\ thrown' = r.thrown
    /\ calls' = r.calls
    /\ watchedGameId' = r.watchedGameId
    /\ unsubscribeMessage' = r.unsubscribeMessage
    /\ unsubscribers' = r.unsubscribers
    /\ lastProcessed' = r.lastProcessed
    /\ UNCHANGED urlOk
    /\ UNCHANGED cacheVars

\* what the last task was, and what the service looked like when it began
Event(kind, sup, code) ==
    [kind |-> kind, superseded |-> sup, code |-> code,
     pre |-> [status |-> state.status,
              reconnectAttempts |-> reconnectAttempts,
              lastConnectedAt |-> state.lastConnectedAt]]

Connect(g, d) ==
    /\ Commit(connect(Supersede(Cur(FALSE)), g, d))
    /\ lastCall' = "connect"
    /\ lastEvent' = Event("connect", FALSE, 0)
    /\ closures' = 0

Disconnect ==
    /\ Commit(disconnect(Supersede(Cur(FALSE))))
    /\ lastCall' = "disconnect"
    /\ lastEvent' = Event("disconnect", FALSE, 0)
    /\ closures' = 0

\* the transport opens: readyState becomes OPEN and the open event fires
TransportOpen(s) ==
    /\ sockets[s].readyState = "CONNECTING"
    /\ LET m == [Cur(sockets[s].superseded) EXCEPT
                    !.sockets[s].readyState = "OPEN"]
       IN Commit(IF sockets[s].onopen THEN onopen(m) ELSE m)
    /\ lastEvent' = Event("open", sockets[s].superseded, 0)
    /\ closures' = IF sockets[s].onopen THEN 0 ELSE closures
    /\ UNCHANGED lastCall

\* a frame whose message carries the server's timestamp t arrives on an
\* open socket
TransportStampedMessage(s, frame, t) ==
    /\ sockets[s].readyState = "OPEN"
    /\ LET m == Cur(sockets[s].superseded)
           r == IF sockets[s].onmessage THEN onmessage(m, frame) ELSE m
       IN Commit(IF r.dispatched # <<>>
                 THEN [r EXCEPT !.lastProcessed = t]
                 ELSE r)
    /\ lastEvent' = Event("message", sockets[s].superseded, 0)
    /\ UNCHANGED <<lastCall, closures>>

\* a frame arrives on an open socket
TransportMessage(s, frame) ==
    /\ sockets[s].readyState = "OPEN"
    /\ LET m == Cur(sockets[s].superseded)
       IN Commit(IF sockets[s].onmessage THEN onmessage(m, frame) ELSE m)
    /\ lastEvent' = Event("message", sockets[s].superseded, 0)
    /\ UNCHANGED <<lastCall, closures>>

CountClosure(s, code) ==
    IF ~sockets[s].onclose THEN closures
    ELSE IF code = NORMAL_CLOSURE THEN 0
    ELSE Min(closures + 1, MaxClosures)

\* the connection ends without a failure: readyState becomes CLOSED and
\* the close event fires
TransportClose(s, code) ==
    /\ sockets[s].readyState \in {"CONNECTING", "OPEN"}
    /\ LET m == [Cur(sockets[s].superseded) EXCEPT !.sockets[s] = ClosedSocket]
       IN Commit(IF sockets[s].onclose THEN handleDisconnect(m, code) ELSE m)
    /\ lastEvent' = Event("close", sockets[s].superseded, code)
    /\ closures' = CountClosure(s, code)
    /\ UNCHANGED lastCall

\* the connection fails: readyState becomes CLOSED, then the error event and
\* the close event (code 1006) fire in the same task
TransportFail(s) ==
    /\ sockets[s].readyState \in {"CONNECTING", "OPEN"}
    /\ LET m  == [Cur(sockets[s].superseded) EXCEPT !.sockets[s] = ClosedSocket]
           m1 == IF sockets[s].onerror
                 THEN handleConnectionError(m, "Connection error") ELSE m
       IN Commit(IF sockets[s].onclose
                 THEN handleDisconnect(m1, ABNORMAL_CLOSURE) ELSE m1)
    /\ lastEvent' = Event("fail", sockets[s].superseded, ABNORMAL_CLOSURE)
    /\ closures' = CountClosure(s, ABNORMAL_CLOSURE)
    /\ UNCHANGED lastCall

\* a reconnect timer fires
TimerFire(t) ==
    /\ timers[t].pending
    /\ LET m == [Cur(timers[t].superseded) EXCEPT
                    !.timers[t] = IdleTimer]
       IN Commit(createConnection(m))
    /\ lastEvent' = Event("timer", timers[t].superseded, 0)
    /\ UNCHANGED <<lastCall, closures>>

\* send(message); the transmit of the socket may throw
Send(throws) ==
    /\ Commit(send([Cur(FALSE) EXCEPT !.txFails = throws],
                    ClientSyncRequest(UndefinedStamp)))
    /\ lastEvent' = Event(IF throws THEN "sendFails" ELSE "send", FALSE, 0)
    /\ UNCHANGED <<lastCall, closures>>

OnStateChange(handler) ==
    /\ Len(SetAdd(stateHandlers, handler)) <= MaxObservers
    /\ LET r == onStateChange(Cur(FALSE), handler)
       IN Commit(IF r.thrown THEN r
                 ELSE [r EXCEPT !.unsubscribers["state"][handler] = Fresh])
    /\ lastEvent' = Event("onStateChange", FALSE, 0)
    /\ UNCHANGED <<lastCall, closures>>

\* a consumer calls getState() and, if write is set, writes into the
\* snapshot it got
GetState(write) ==
    /\ LET m == Cur(FALSE)
           snapshot == IF write THEN MutateCopy(getState(m)) ELSE getState(m)
       IN Commit(IF snapshot.lastConnectedAt = MutatedDate
                 THEN MutateSharedDate(m)
                 ELSE m)
    /\ lastEvent' = Event("getState", FALSE, 0)
    /\ UNCHANGED <<lastCall, closures>>

OnMessage(handler) ==
    /\ Len(SetAdd(messageHandlers, handler)) <= MaxObservers
    /\ Commit([onMessage(Cur(FALSE), handler)
                  EXCEPT !.unsubscribers["message"][handler] = Fresh])
    /\ lastEvent' = Event("onMessage", FALSE, 0)
    /\ UNCHANGED <<lastCall, closures>>

\* a consumer calls the function that onStateChange(handler) returned to it
UnsubscribeState(handler) ==
    /\ unsubscribers["state"][handler] # NoFunction
    /\ Commit([unsubscribeStateHandler(Cur(FALSE), handler)
                  EXCEPT !.unsubscribers["state"][handler] = Called])
    /\ lastEvent' = Event("unsubscribeState", FALSE, 0)
    /\ UNCHANGED <<lastCall, closures>>

\* a consumer calls the function that onMessage(handler) returned to it
UnsubscribeMessage(handler) ==
    /\ unsubscribers["message"][handler] # NoFunction
    /\ Commit([unsubscribeMessageHandler(Cur(FALSE), handler)
                  EXCEPT !.unsubscribers["message"][handler] = Called])
    /\ lastEvent' = Event("unsubscribeMessage", FALSE, 0)
    /\ UNCHANGED <<lastCall, closures>>

\* the page gives the router a target: the watcher runs
SetTarget(g, d) ==
    /\ LET m == IF g = watchedGameId
                THEN Cur(FALSE)
                ELSE Supersede(Cur(FALSE))
       IN Commit(watchGameId(m, g, d))
    /\ lastEvent' = Event("setTarget", FALSE, 0)
    /\ lastCall' = IF g = watchedGameId THEN lastCall
                   ELSE IF Truthy(g) THEN "connect" ELSE "disconnect"
    /\ closures' = IF g = watchedGameId THEN closures ELSE 0

----------------------------------------------------------------------------
(* The reservation caches of the consumers.  Two consumers listen to the    *)
(* service's messages: the connection-status component, whose handleMessage *)
(* feeds the map of useReservation, and useGamesAPIWithWebSocket, whose     *)
(* handleWebSocketMessage feeds reservationUpdates of useGamesAPI.  ISO     *)
(* timestamps are the integers 0..MaxTime, compared as new Date() compares. *)

\* the clock, the server's stamps and the expiry times lie in 0..MaxTime
MaxTime == 2
Times == 1..MaxTime

ConnectionStatus == "ConnectionStatus"
GamesAPIWithWebSocket == "useGamesAPIWithWebSocket"
Consumers == {ConnectionStatus, GamesAPIWithWebSocket}

RESERVATION_STATUS_ACTIVE == "active"
RESERVATION_STATUS_RELEASED == "released"
RESERVATION_STATUS_EXPIRED == "expired"
ReservationStatuses == {RESERVATION_STATUS_ACTIVE, RESERVATION_STATUS_RELEASED,
                        RESERVATION_STATUS_EXPIRED}
ReleaseReasons == {"expired", "cancelled", "joined"}
EventTypes == {"game_initialized", "game_started"}

\* a Reservation; "absent" stands for a key that a Map does not hold and
\* "null" for the value null
Reservation(status, created_at, expires_at) ==
    [status |-> status, created_at |-> created_at, expires_at |-> expires_at]
Absent == Reservation("absent", 0, 0)
NullReservation == Reservation("null", 0, 0)
IsRecord(reservation) == reservation.status \in ReservationStatuses

\* a WSMessage: the fields a message type does not have are left blank
WSMessage(type, game_id, timestamp, expires_at, reason, event_type, res) ==
    [type |-> type, game_id |-> game_id, timestamp |-> timestamp,
     expires_at |-> expires_at, reason |-> reason, event_type |-> event_type,
     reservation |-> res]
NoMessage == WSMessage("none", NullGame, 0, 0, "", "", Absent)

ReservationCreatedMessages ==
    {WSMessage("reservation_created", g, t, x, "", "", Absent) :
        g \in GameIds, t \in Times, x \in Times}
ReservationReleasedMessages ==
    {WSMessage("reservation_released", g, t, 0, r, "", Absent) :
        g \in GameIds, t \in Times, r \in ReleaseReasons}
SyncResponseMessages ==
    {WSMessage("sync_response", g, t, 0, "", "", res) :
        g \in GameIds, t \in Times,
        res \in {NullReservation} \cup
                {Reservation(RESERVATION_STATUS_ACTIVE, 0, x) : x \in Times}}
GameStateUpdateMessages ==
    {WSMessage("game_state_update", g, t, 0, "", e, Absent) :
        g \in GameIds, t \in {1}, e \in EventTypes}
WSMessages == ReservationCreatedMessages \cup ReservationReleasedMessages
              \cup SyncResponseMessages \cup GameStateUpdateMessages

\* what a REST response can report for a game
RestReservations ==
    {NullReservation} \cup
    {Reservation(s, 0, x) : s \in ReservationStatuses, x \in {MaxTime}}

\* the caches as one record
Caches ==
    [reservationUpdates |-> reservationUpdates,
     gamesQueryData |-> gamesQueryData,
     reservations |-> reservations,
     invalidated |-> FALSE,
     now |-> now]

invalidateQueries(c) == [c EXCEPT !.invalidated = TRUE]

\* GameCard.vue: isReservationActive
isReservationActive(reservation, t) ==
    IF ~IsRecord(reservation) THEN FALSE
    ELSE IF reservation.status # RESERVATION_STATUS_ACTIVE THEN FALSE
    ELSE reservation.expires_at > t

\* useReservation
handleReservationCreated(c, event) ==
    [c EXCEPT !.reservations[event.game_id] =
        Reservation(RESERVATION_STATUS_ACTIVE, c.now, event.expires_at)]

handleReservationReleased(c, event) ==
    [c EXCEPT !.reservations[event.game_id] = Absent]

useReservation_isGameReserved(c, g) ==
    isReservationActive(c.reservations[g], c.now)

\* the connection-status component
handleMessage(c, message) ==
    IF message.type = "reservation_created"
    THEN invalidateQueries(handleReservationCreated(c, message))
    ELSE IF message.type = "reservation_released"
    THEN invalidateQueries(handleReservationReleased(c, message))
    ELSE IF message.type = "game_state_update"
    THEN invalidateQueries(c)
    ELSE c

\* useGamesAPI
updateReservation(c, g, reservation) ==
    [c EXCEPT !.reservationUpdates[g] = reservation]

\* the computed map with the two loops in the other order: the REST
\* response is written over the pushed entry
computedReservations_restLast(c, g) ==
    LET fromApi == IF /\ IsRecord(c.gamesQueryData[g])
                      /\ c.gamesQueryData[g].status = RESERVATION_STATUS_ACTIVE
                   THEN c.gamesQueryData[g]
                   ELSE Absent
        pushed == c.reservationUpdates[g]
    IN IF fromApi # Absent THEN fromApi
       ELSE IF IsRecord(pushed) /\ pushed.status = RESERVATION_STATUS_ACTIVE
       THEN pushed
       ELSE Absent

\* the computed map reservations of useGamesAPI, read at one key: the REST
\* response first, then the pushed entry over it
computedReservations(c, g) ==
    LET fromApi == IF /\ IsRecord(c.gamesQueryData[g])
                      /\ c.gamesQueryData[g].status = RESERVATION_STATUS_ACTIVE
                   THEN c.gamesQueryData[g]
                   ELSE Absent
        pushed == c.reservationUpdates[g]
    IN IF pushed = Absent THEN fromApi
       ELSE IF IsRecord(pushed) /\ pushed.status = RESERVATION_STATUS_ACTIVE
       THEN pushed
       ELSE Absent

useGamesAPI_isGameReserved(c, g) == computedReservations(c, g) # Absent

clearReservationUpdate(c, g) == [c EXCEPT !.reservationUpdates[g] = Absent]

clearAllReservationUpdates(c) ==
    [c EXCEPT !.reservationUpdates = [g \in GameIds |-> Absent]]

\* refetch of useGamesAPI: the pushed entries are cleared and gamesQuery is
\* asked again; its response arrives in a later task
refetch(c) == clearAllReservationUpdates(c)

\* useGamesAPIWithWebSocket, the earlier version of the handler
handleWebSocketMessage_v1(c, message) ==
    IF message.type = "game_state_update"
    THEN invalidateQueries(c)
    ELSE IF message.type = "reservation_created"
    THEN updateReservation(c, message.game_id,
             Reservation(RESERVATION_STATUS_ACTIVE, message.timestamp,
                         message.expires_at))
    ELSE IF message.type = "reservation_released"
    THEN LET c1 == updateReservation(c, message.game_id, NullReservation)
         IN IF message.reason = "joined" THEN invalidateQueries(c1) ELSE c1
    ELSE c

\* useGamesAPIWithWebSocket, the later version of the handler: a game update
\* is written into the cached list, and only a new game makes it refetch
handleWebSocketMessage(c, message) ==
    IF message.type = "game_state_update"
    THEN IF message.event_type = "game_initialized"
         THEN invalidateQueries(c)
         ELSE c
    ELSE IF message.type = "reservation_created"
    THEN updateReservation(c, message.game_id,
             Reservation(RESERVATION_STATUS_ACTIVE, message.timestamp,
                         message.expires_at))
    ELSE IF message.type = "reservation_released"
    THEN updateReservation(c, message.game_id, NullReservation)
    ELSE c

\* the latest server stamp among those of the reservation messages handled
Newer(old, message) ==
    IF message.type \notin {"reservation_created", "reservation_released",
                            "sync_response"}
    THEN old
    ELSE IF message.timestamp > old THEN message.timestamp ELSE old

CommitCaches(c) ==
    /\ reservationUpdates' = c.reservationUpdates
    /\ gamesQueryData' = c.gamesQueryData
    /\ reservations' = c.reservations
    /\ invalidated' = c.invalidated
    /\ now' = c.now
    /\ UNCHANGED serviceVars

\* one message is given to the handlers of the consumers that listen
Receive(message, listeners) ==
    /\ listeners # {}
    /\ LET c1 == IF ConnectionStatus \in listeners
                 THEN handleMessage(Caches, message) ELSE Caches
           c2 == IF GamesAPIWithWebSocket \in listeners
                 THEN handleWebSocketMessage(c1, message) ELSE c1
       IN CommitCaches(c2)
    /\ lastMessage' = [message |-> message, listeners |-> listeners]
    /\ newest' = [k \in Consumers |->
                    IF k \in listeners
                    THEN [newest[k] EXCEPT ![message.game_id] =
                             Newer(@, message)]
                    ELSE newest[k]]

\* time passes
Tick ==
    /\ now < MaxTime
    /\ CommitCaches([Caches EXCEPT !.now = now + 1])
    /\ lastMessage' = [message |-> NoMessage, listeners |-> {}]
    /\ UNCHANGED newest

\* gamesQuery receives a response of the REST API
QueryFetched(g, reservation) ==
    /\ gamesQueryData[g] # reservation
    /\ CommitCaches([Caches EXCEPT !.gamesQueryData[g] = reservation])
    /\ lastMessage' = [message |-> NoMessage, listeners |-> {}]
    /\ UNCHANGED newest

CacheInit ==
    /\ reservationUpdates = [g \in GameIds |-> Absent]
    /\ gamesQueryData = [g \in GameIds |-> Absent]
    /\ reservations = [g \in GameIds |-> Absent]
    /\ invalidated = FALSE
    /\ now = 0
    /\ lastMessage = [message |-> NoMessage, listeners |-> {}]
    /\ newest = [k \in Consumers |-> [g \in GameIds |-> 0]]

Init ==
    /\ ws = NoSocket
    /\ gameId = NullGame
    /\ initData = ""
    /\ reconnectAttempts = 0
    /\ reconnectTimeout = NoTimer
    /\ state = InitialState
    /\ sockets = [s \in SocketIds |-> ClosedSocket]
    /\ timers = [t \in TimerIds |-> IdleTimer]
    /\ urlOk \in BOOLEAN
    /\ notified = <<>>
    /\ dispatched = <<>>
    /\ sent = <<>>
    /\ scheduled = <<>>
    /\ lastCall = "none"
    /\ lastEvent = Event("init", FALSE, 0)
    /\ closures = 0
    /\ stateHandlers = <<>>
    /\ messageHandlers = <<>>
    /\ delivered = <<>>
    /\ received = <<>>
    /\ returned = <<>>
    /\ thrown = FALSE
    /\ calls = <<>>
    /\ watchedGameId = UndefinedGame
    /\ unsubscribeMessage = FALSE
    /\ unsubscribers = [registry \in {"state", "message"} |->
                          [handler \in Handlers |-> NoFunction]]
    /\ lastProcessed = UndefinedStamp
    /\ CacheInit

Next ==
    \/ \E g \in GameIds, d \in InitDatas : Connect(g, d)
    \/ Disconnect
    \/ \E s \in SocketIds : TransportOpen(s)
    \/ \E s \in SocketIds, frame \in Frames : TransportMessage(s, frame)
    \/ \E s \in SocketIds, code \in CloseCodes : TransportClose(s, code)
    \/ \E s \in SocketIds : TransportFail(s)
    \/ \E t \in TimerIds : TimerFire(t)

Spec == Init /\ [][Next]_vars

\* the service with a caller of send()
NextSend ==
    \/ Next
    \/ \E throws \in BOOLEAN : Send(throws)

SpecSend == Init /\ [][NextSend]_vars

\* the service with state observers that return or throw
NextObservers ==
    \/ Next
    \/ \E handler \in {Passive, Throwing} : OnStateChange(handler)

SpecObservers == Init /\ [][NextObservers]_vars

\* the service with state observers, some of which call disconnect()
NextReentrant ==
    \/ Next
    \/ \E handler \in {Passive, Reentrant} : OnStateChange(handler)

SpecReentrant == Init /\ [][NextReentrant]_vars

\* the service with consumers that write into the snapshots they get
NextSnapshots ==
    \/ Next
    \/ \E handler \in {Passive, Mutating} : OnStateChange(handler)
    \/ \E write \in BOOLEAN : GetState(write)

SpecSnapshots == Init /\ [][NextSnapshots]_vars

\* consumers that subscribe and unsubscribe, any number of times, while the
\* service connects, opens, receives and disconnects
NextUnsubscribe ==
    \/ \E g \in GameIds, d \in InitDatas : Connect(g, d)
    \/ Disconnect
    \/ \E s \in SocketIds : TransportOpen(s)
    \/ \E s \in SocketIds, frame \in Frames : TransportMessage(s, frame)
    \/ \E handler \in {Passive, Reentrant} : OnStateChange(handler)
    \/ \E handler \in {Passive, Throwing} : OnMessage(handler)
    \/ \E handler \in {Passive, Reentrant} : UnsubscribeState(handler)
    \/ \E handler \in {Passive, Throwing} : UnsubscribeMessage(handler)

SpecUnsubscribe == Init /\ [][NextUnsubscribe]_vars

\* the service with messages whose timestamps are followed
NextStamped ==
    \/ \E g \in GameIds, d \in InitDatas : Connect(g, d)
    \/ Disconnect
    \/ \E s \in SocketIds : TransportOpen(s)
    \/ \E s \in SocketIds, frame \in Frames, t \in Stamps :
          TransportStampedMessage(s, frame, t)
    \/ \E s \in SocketIds, code \in CloseCodes : TransportClose(s, code)
    \/ \E s \in SocketIds : TransportFail(s)
    \/ \E t \in TimerIds : TimerFire(t)

SpecStamped == Init /\ [][NextStamped]_vars

\* connectGlobal(initData)
connectGlobal(m, d) == connect(m, NullGame, d)

\* the connection-status component is mounted: it subscribes to the state
\* and to the messages, and connects to the global feed if the service is
\* disconnected
MountStatus(d) ==
    /\ ConnectionStatus \notin Range(stateHandlers)
    /\ Len(stateHandlers) < MaxObservers
    /\ Len(SetAdd(messageHandlers, ConnectionStatus)) <= MaxObservers
    /\ LET m  == IF state.status = "disconnected"
                 THEN Supersede(Cur(FALSE)) ELSE Cur(FALSE)
           m1 == onStateChange(m, ConnectionStatus)
           m2 == onMessage(m1, ConnectionStatus)
       IN Commit(IF getState(m2).status = "disconnected"
                 THEN connectGlobal(m2, d)
                 ELSE m2)
    /\ lastEvent' = Event("mountStatus", FALSE, 0)
    /\ lastCall' = IF state.status = "disconnected" THEN "connect"
                   ELSE lastCall
    /\ closures' = IF state.status = "disconnected" THEN 0 ELSE closures

\* the connection-status component is unmounted: it unsubscribes and does
\* not disconnect
UnmountStatus ==
    /\ ConnectionStatus \in Range(stateHandlers)
    /\ Commit(unsubscribeMessageHandler(
                  unsubscribeStateHandler(Cur(FALSE), ConnectionStatus),
                  ConnectionStatus))
    /\ lastEvent' = Event("unmountStatus", FALSE, 0)
    /\ UNCHANGED <<lastCall, closures>>

\* the component that uses useGamesAPIWithWebSocket is unmounted: its
\* watcher stops and it unsubscribes if it is subscribed
UnmountRouter ==
    /\ watchedGameId # UndefinedGame
    /\ LET m  == [Cur(FALSE) EXCEPT !.watchedGameId = UndefinedGame]
       IN Commit(IF m.unsubscribeMessage
                 THEN [unsubscribeMessageHandler(m, RouterObserver)
                          EXCEPT !.unsubscribeMessage = FALSE]
                 ELSE m)
    /\ lastEvent' = Event("unmountRouter", FALSE, 0)
    /\ UNCHANGED <<lastCall, closures>>

\* the consumers of the shared service: the connection-status component
\* and a component whose target is null or a game
NextShared ==
    \/ \E d \in InitDatas : MountStatus(d)
    \/ UnmountStatus
    \/ \E g \in {NullGame} \cup GameIds, d \in InitDatas : SetTarget(g, d)
    \/ UnmountRouter
    \/ \E s \in SocketIds : TransportOpen(s)
    \/ \E s \in SocketIds, code \in CloseCodes : TransportClose(s, code)
    \/ \E s \in SocketIds : TransportFail(s)
    \/ \E t \in TimerIds : TimerFire(t)

SpecShared == Init /\ [][NextShared]_vars

\* the first call of the page: connect(), and no call after it
ConnectOnce(g, d) ==
    /\ lastCall = "none"
    /\ Connect(g, d)

\* a socket that is connecting gets its answer: it opens, or it ends with
\* an abnormal closure
ConnectingResolves(s) ==
    /\ sockets[s].readyState = "CONNECTING"
    /\ \/ TransportOpen(s)
       \/ \E code \in CloseCodes \ {NORMAL_CLOSURE} : TransportClose(s, code)
       \/ TransportFail(s)

\* the service left to itself after connect(): only the transport and the
\* timers act, and no connection ends with a normal closure
NextRetry ==
    \/ \E g \in GameIds, d \in InitDatas : ConnectOnce(g, d)
    \/ \E s \in SocketIds : TransportOpen(s)
    \/ \E s \in SocketIds, code \in CloseCodes \ {NORMAL_CLOSURE} :
          TransportClose(s, code)
    \/ \E s \in SocketIds : TransportFail(s)
    \/ \E t \in TimerIds : TimerFire(t)

\* the event loop runs every timer that is due, and the browser ends every
\* handshake with an open or a close event
SpecRetry ==
    /\ Init
    /\ [][NextRetry]_vars
    /\ \A t \in TimerIds : WF_vars(TimerFire(t))
    /\ \A s \in SocketIds : WF_vars(ConnectingResolves(s))

\* the service with state observers that return or throw and a caller of
\* send()
NextCalls ==
    \/ NextObservers
    \/ \E throws \in BOOLEAN : Send(throws)

SpecCalls == Init /\ [][NextCalls]_vars

\* the service with message observers that return or throw
NextMessages ==
    \/ Next
    \/ \E handler \in {Passive, Throwing} : OnMessage(handler)

SpecMessages == Init /\ [][NextMessages]_vars

\* the same with a server that also sends error messages and JSON texts
\* that are no message
NextInbound ==
    \/ NextMessages
    \/ \E s \in SocketIds, frame \in OtherFrames : TransportMessage(s, frame)

SpecInbound == Init /\ [][NextInbound]_vars

\* the service driven by the subscription router
NextRouter ==
    \/ \E s \in SocketIds : TransportOpen(s)
    \/ \E s \in SocketIds, frame \in Frames : TransportMessage(s, frame)
    \/ \E s \in SocketIds, code \in CloseCodes : TransportClose(s, code)
    \/ \E s \in SocketIds : TransportFail(s)
    \/ \E t \in TimerIds : TimerFire(t)
    \/ \E g \in RouterTargets, d \in InitDatas : SetTarget(g, d)

SpecRouter == Init /\ [][NextRouter]_vars

\* the reservation caches under every order of messages, REST responses and
\* clock ticks
NextCache ==
    \/ \E message \in WSMessages, listeners \in SUBSET Consumers :
          Receive(message, listeners)
    \/ Tick
    \/ \E g \in GameIds, reservation \in RestReservations :
          QueryFetched(g, reservation)

SpecCache == Init /\ [][NextCache]_vars

ClearReservationUpdate(g) ==
    /\ CommitCaches(clearReservationUpdate(Caches, g))
    /\ lastMessage' = [message |-> NoMessage, listeners |-> {}]
    /\ UNCHANGED newest

ClearAllReservationUpdates ==
    /\ CommitCaches(clearAllReservationUpdates(Caches))
    /\ lastMessage' = [message |-> NoMessage, listeners |-> {}]
    /\ UNCHANGED newest

Refetch ==
    /\ CommitCaches(refetch(Caches))
    /\ lastMessage' = [message |-> NoMessage, listeners |-> {}]
    /\ UNCHANGED newest

\* the caches of useGamesAPI under pushed messages, REST responses and the
\* calls that clear the pushed entries
NextOverride ==
    \/ \E message \in WSMessages :
          Receive(message, {GamesAPIWithWebSocket})
    \/ \E g \in GameIds, reservation \in RestReservations :
          QueryFetched(g, reservation)
    \/ \E g \in GameIds : ClearReservationUpdate(g)
    \/ ClearAllReservationUpdates
    \/ Refetch

SpecOverride == Init /\ [][NextOverride]_vars

----------------------------------------------------------------------------
(* What the claims speak about *)

LiveSockets == {s \in SocketIds : sockets[s].readyState \in {"CONNECTING", "OPEN"}}

Attached(s) ==
    sockets[s].onopen \/ sockets[s].onmessage \/ sockets[s].onclose
        \/ sockets[s].onerror

PendingTimers == {t \in TimerIds : timers[t].pending}

TrackedTimerPending ==
    reconnectTimeout # NoTimer /\ timers[reconnectTimeout].pending

Retrying == {"connecting", "connected", "reconnecting"}

\* the last task was a close event with a code other than 1000, alone or
\* after the error event of a failed connection
AbnormalClosure ==
    \/ lastEvent.kind = "fail"
    \/ lastEvent.kind = "close" /\ lastEvent.code # NORMAL_CLOSURE

\* the last task ran createConnection and new WebSocket(url) threw
ConstructionError == lastEvent.kind \in {"connect", "timer"} /\ ~urlOk

\* the instance, its sockets and its timers, without the logs of the task
Engine(m) ==
    [ws |-> m.ws, gameId |-> m.gameId, initData |-> m.initData,
     reconnectAttempts |-> m.reconnectAttempts,
     reconnectTimeout |-> m.reconnectTimeout, state |-> m.state,
     sockets |-> [s \in SocketIds |->
                     [m.sockets[s] EXCEPT !.superseded = FALSE]],
     timers |-> [t \in TimerIds |-> m.timers[t].pending]]

----------------------------------------------------------------------------
(* C1: at most one socket of the service is connecting or open with         *)
(* callbacks of the service attached; a reconnect timer that fires finds    *)
(* the previous socket closed.                                              *)
C1_SingleConnection ==
    Cardinality({s \in LiveSockets : Attached(s)}) <= 1

(* C2: when disconnect() returns the status is Disconnected, and as long as *)
(* connect() is not called no reconnect timer fires and no connection is    *)
(* started.                                                                 *)
C2_DisconnectIsFinal ==
    lastCall = "disconnect" =>
        /\ lastEvent.kind = "disconnect" => state.status = "disconnected"
        /\ lastEvent.kind # "timer"
        /\ PendingTimers = {}

(* C3 as stated: after 5 abnormal closures in a row since connect(), with   *)
(* no Connected state in between, the status is Failed and no reconnect     *)
(* timer is pending.                                                        *)
C3_FailedAfterFive ==
    (lastCall = "connect" /\ state.status # "disconnected" /\ closures = 5) =>
        (state.status = "failed" /\ PendingTimers = {})

(* C3 as amended: after 6 abnormal closures in a row since connect() (the   *)
(* first attempt and the 5 retries), with no Connected state in between,    *)
(* the status is Failed, and neither the sixth closure nor any later task   *)
(* schedules a reconnect timer.                                             *)
C3_FailedAfterSix ==
    (lastCall = "connect" /\ state.status # "disconnected" /\ closures >= 6) =>
        (state.status = "failed" /\ scheduled = <<>>)

C3_Witness ==
    /\ lastCall = "connect"
    /\ closures = 6
    /\ AbnormalClosure
    /\ lastEvent.pre.status = "reconnecting"
    /\ state.status = "failed"

(* C4: a transport open that follows an earlier successful connection sends *)
(* exactly one sync_request; the first open of the service sends none.      *)
C4_SyncOnlyOnReconnect ==
    lastEvent.kind = "open" =>
        Len(sent) = IF lastEvent.pre.lastConnectedAt # NullDate THEN 1 ELSE 0

(* C5: a reconnect timer or socket callback of an attempt that connect() or *)
(* disconnect() has superseded changes neither the status, the attempt      *)
(* counter nor the socket handle, and reaches no observer.                  *)
C5_StaleCallbacksIgnored ==
    [][lastEvent'.superseded =>
          /\ state'.status = state.status
          /\ reconnectAttempts' = reconnectAttempts
          /\ ws' = ws
          /\ notified' = <<>>
          /\ dispatched' = <<>>]_vars

(* C6: a socket that fails while the status is Connecting costs exactly one *)
(* reconnect attempt and schedules exactly one retry timer, also when the   *)
(* failure arrives as an error event followed by a close event.             *)
C6_OneAttemptPerFailure ==
    (AbnormalClosure /\ lastEvent.pre.status = "connecting") =>
        /\ reconnectAttempts = lastEvent.pre.reconnectAttempts + 1
        /\ Len(scheduled) = 1

(* C7: while the status is Failed no reconnect timer is pending and no      *)
(* socket is created; only connect() or disconnect() leaves Failed.         *)
C7_FailedIsTerminal ==
    /\ state.status = "failed" => PendingTimers = {}
    /\ lastEvent.pre.status = "failed" => lastEvent.kind # "timer"
    /\ (lastEvent.pre.status = "failed" /\ state.status # "failed") =>
           lastEvent.kind \in {"connect", "disconnect"}

(* C8: a close with code 1000 while the status is Connecting, Connected or  *)
(* Reconnecting gives Disconnected, leaves the attempt counter alone and    *)
(* leaves no reconnect timer pending, so that nothing connects again before *)
(* connect() is called.                                                     *)
C8_NormalClosureEnds ==
    (/\ lastEvent.kind = "close"
     /\ lastEvent.code = NORMAL_CLOSURE
     /\ lastEvent.pre.status \in Retrying) =>
        /\ state.status = "disconnected"
        /\ reconnectAttempts = lastEvent.pre.reconnectAttempts
        /\ PendingTimers = {}

(* C9: a transport error while the status is Connecting, Connected or       *)
(* Reconnecting, and an error of the socket constructor, take the path of   *)
(* an abnormal closure: Reconnecting with a retry scheduled while attempts  *)
(* are left, Failed once they are exhausted.                                *)
C9_ErrorsFeedReconnect ==
    /\ (lastEvent.kind = "fail" /\ lastEvent.pre.status \in Retrying) =>
           IF lastEvent.pre.reconnectAttempts < MAX_RECONNECT_ATTEMPTS
           THEN state.status = "reconnecting" /\ TrackedTimerPending
           ELSE state.status = "failed"
    /\ (ConstructionError /\ lastEvent.kind = "connect") =>
           (state.status = "reconnecting" /\ TrackedTimerPending)
    /\ (ConstructionError /\ lastEvent.kind = "timer"
            /\ lastEvent.pre.status \in Retrying) =>
           IF lastEvent.pre.reconnectAttempts < MAX_RECONNECT_ATTEMPTS
           THEN state.status = "reconnecting" /\ TrackedTimerPending
           ELSE state.status = "failed"

(* C10: an abnormal closure while the status is Connected and the attempt   *)
(* counter is 0 gives Reconnecting, makes the counter 1 and schedules       *)
(* exactly one reconnect timer, of 1000 ms.                                 *)
C10_FirstRetry ==
    (/\ AbnormalClosure
     /\ lastEvent.pre.status = "connected"
     /\ lastEvent.pre.reconnectAttempts = 0) =>
        /\ state.status = "reconnecting"
        /\ reconnectAttempts = 1
        /\ state.reconnectAttempts = 1
        /\ scheduled = <<1000>>
        /\ TrackedTimerPending

C10_Witness ==
    /\ lastEvent.kind = "close"
    /\ lastEvent.code = ABNORMAL_CLOSURE
    /\ lastEvent.pre.status = "connected"
    /\ lastEvent.pre.reconnectAttempts = 0
    /\ state.status = "reconnecting"
    /\ scheduled = <<1000>>

(* C11 as stated: when a reconnect timer fires while the status is          *)
(* Reconnecting and the socket can be built, the status becomes Connecting  *)
(* and the state observers are told so, before the new transport opens.     *)
C11_TimerGivesConnecting ==
    (/\ lastEvent.kind = "timer"
     /\ lastEvent.pre.status = "reconnecting"
     /\ urlOk) =>
        /\ state.status = "connecting"
        /\ \E i \in 1..Len(notified) : notified[i].status = "connecting"

(* C11 as amended: when a reconnect timer fires while the status is         *)
(* Reconnecting and the socket can be built, the service holds a new        *)
(* connecting socket, but the status stays Reconnecting and no state        *)
(* observer is notified until that socket opens or fails.                   *)
C11_TimerKeepsReconnecting ==
    (/\ lastEvent.kind = "timer"
     /\ lastEvent.pre.status = "reconnecting"
     /\ urlOk) =>
        /\ state.status = "reconnecting"
        /\ notified = <<>>
        /\ ws # NoSocket
        /\ sockets[ws].readyState = "CONNECTING"
        /\ Attached(ws)

C11_Witness ==
    /\ lastEvent.kind = "timer"
    /\ lastEvent.pre.status = "reconnecting"
    /\ urlOk
    /\ state.status = "reconnecting"
    /\ ws # NoSocket
    /\ sockets[ws].readyState = "CONNECTING"

(* C12: a transport open gives Connected and resets the attempt counter to  *)
(* 0; in every reachable state Connected implies that the counter, and the  *)
(* counter of the snapshot, are 0.                                          *)
C12_OpenResetsAttempts ==
    /\ lastEvent.kind = "open" =>
           /\ state.status = "connected"
           /\ reconnectAttempts = 0
           /\ state.reconnectAttempts = 0
    /\ state.status = "connected" =>
           (reconnectAttempts = 0 /\ state.reconnectAttempts = 0)

C12_Witness ==
    /\ lastEvent.kind = "open"
    /\ lastEvent.pre.status = "reconnecting"
    /\ lastEvent.pre.reconnectAttempts >= 2
    /\ state.status = "connected"
    /\ reconnectAttempts = 0

\* the delays of the specification, by attempt number
DelayTable == <<1000, 2000, 4000, 8000, 16000>>

(* C13: the timer scheduled for the n-th reconnect attempt in a row, n in   *)
(* 1..5, has the delay 1000, 2000, 4000, 8000, 16000 ms, and no scheduled   *)
(* delay exceeds 30000 ms.                                                  *)
C13_BackoffTable ==
    \A i \in 1..Len(scheduled) :
        LET n == reconnectAttempts - (Len(scheduled) - i)
        IN /\ n \in 1..MAX_RECONNECT_ATTEMPTS
           /\ scheduled[i] = DelayTable[n]
           /\ scheduled[i] <= MAX_RECONNECT_DELAY

C13_Witness ==
    /\ scheduled = <<16000>>
    /\ reconnectAttempts = 5
    /\ state.status = "reconnecting"

(* C14: connect(target, credential), when the socket can be built, closes   *)
(* every socket of the service, cancels every pending reconnect timer,      *)
(* resets the attempt counter, records the target and leaves the status     *)
(* Connecting with exactly one socket; a second connect() with the same     *)
(* arguments leaves the service as the first one left it.                   *)
C14_ConnectEstablishes ==
    /\ (lastEvent.kind = "connect" /\ urlOk) =>
           /\ state.status = "connecting"
           /\ reconnectAttempts = 0
           /\ gameId \in GameIds /\ state.gameId = gameId
           /\ initData \in InitDatas
           /\ PendingTimers = {}
           /\ ws # NoSocket /\ LiveSockets = {ws}
           /\ sockets[ws].readyState = "CONNECTING"
    /\ \A g \in GameIds, d \in InitDatas :
           LET once  == connect(Cur(FALSE), g, d)
               twice == connect(once, g, d)
           IN (~once.overflow /\ ~twice.overflow) =>
                  Engine(twice) = Engine(once)

(* C15: disconnect() can be called in every state, also before any          *)
(* connect(): it leaves the status Disconnected, the target null, the       *)
(* credential empty and no socket or timer held, and a second disconnect()  *)
(* leaves the service as the first one left it.                             *)
C15_DisconnectIsSafe ==
    /\ lastEvent.kind = "disconnect" =>
           /\ state.status = "disconnected"
           /\ gameId = NullGame /\ state.gameId = NullGame
           /\ initData = ""
           /\ ws = NoSocket /\ reconnectTimeout = NoTimer
           /\ reconnectAttempts = 0
           /\ state.error = NullError
    /\ LET once  == disconnect(Cur(FALSE))
           twice == disconnect(once)
       IN /\ ~once.overflow /\ ~twice.overflow
          /\ once.state.status = "disconnected"
          /\ once.gameId = NullGame /\ once.initData = ""
          /\ Engine(twice) = Engine(once)

C15_Witness ==
    /\ lastEvent.kind = "disconnect"
    /\ lastEvent.pre.status = "reconnecting"
    /\ lastEvent.pre.reconnectAttempts >= 1
    /\ state.status = "disconnected"
    /\ gameId = NullGame

(* C16: send(message) returns false and transmits nothing when the status  *)
(* is not Connected; it returns true only when the message was handed to    *)
(* the open socket of the service; when the transmit throws it returns      *)
(* false; in no case does it change the state or notify an observer.        *)
C16_SendFailsFast ==
    lastEvent.kind \in {"send", "sendFails"} =>
        /\ Len(returned) = 1
        /\ lastEvent.pre.status # "connected" =>
               (returned = <<FALSE>> /\ sent = <<>>)
        /\ returned = <<TRUE>> =>
               /\ sent = <<ClientSyncRequest(UndefinedStamp)>>
               /\ ws # NoSocket /\ sockets[ws].readyState = "OPEN"
        /\ returned = <<FALSE>> => sent = <<>>
        /\ lastEvent.kind = "sendFails" => returned = <<FALSE>>
        /\ notified = <<>>
        /\ state.status = lastEvent.pre.status

C16_Witness ==
    /\ lastEvent.kind = "send"
    /\ lastEvent.pre.status = "connected"
    /\ returned = <<TRUE>>
    /\ sent = <<ClientSyncRequest(UndefinedStamp)>>

(* C17: within a task the calls of state observers are ordered by           *)
(* transition: every observer is shown the snapshot of a transition before  *)
(* any observer is shown the snapshot of the next one, also when an         *)
(* observer calls disconnect() from inside its callback.                    *)
C17_NoInterleaving ==
    \A i, j \in 1..Len(delivered) :
        i < j => delivered[i].tag <= delivered[j].tag

\* the calls of state observers made for broadcast number k of the task
DeliveriesOf(k) ==
    LET OfBroadcast(d) == d.tag = k
    IN SelectSeq(delivered, OfBroadcast)

C19_ReplayOnSubscribe ==
    [][lastEvent'.kind = "onStateChange" =>
          \E handler \in {Passive, Throwing} :
              /\ stateHandlers' = SetAdd(stateHandlers, handler)
              /\ delivered' = <<[to |-> handler, snap |-> state, tag |-> 0]>>
              /\ notified' = <<>>
              /\ state' = state]_vars

C19_Witness ==
    /\ lastEvent.kind = "onStateChange"
    /\ lastCall = "none"
    /\ Len(delivered) = 1
    /\ delivered[1].snap = InitialState

(* C20: a message that is dispatched reaches every registered message       *)
(* observer exactly once, in the order of registration, also the observers  *)
(* registered after one that throws; the task changes no state, notifies no *)
(* state observer, sends nothing and schedules nothing.                     *)
C20_MessageFaultIsolation ==
    lastEvent.kind = "message" =>
        /\ Len(dispatched) <= 1
        /\ dispatched = <<>> => received = <<>>
        /\ dispatched # <<>> =>
               received = [i \in 1..Len(messageHandlers) |->
                              [to |-> messageHandlers[i],
                               message |-> dispatched[1]]]
        /\ notified = <<>>
        /\ state.status = lastEvent.pre.status
        /\ reconnectAttempts = lastEvent.pre.reconnectAttempts
        /\ scheduled = <<>>
        /\ sent = <<>>

C20_Witness ==
    /\ lastEvent.kind = "message"
    /\ messageHandlers = <<Throwing, Passive>>
    /\ dispatched = <<"game_state_update">>
    /\ Len(received) = 2
    /\ received[2].to = Passive

(* C21: a frame that cannot be decoded into a message of the protocol is    *)
(* dropped: whatever reaches a message observer is a message of one of the  *)
(* protocol's types, and a message task leaves the status as it was.        *)
C21_UndecodableDropped ==
    lastEvent.kind = "message" =>
        /\ \A i \in 1..Len(dispatched) : dispatched[i] \in WebSocketMessageType
        /\ \A i \in 1..Len(received) :
               received[i].message \in WebSocketMessageType
        /\ state.status = lastEvent.pre.status
        /\ notified = <<>>

(* C22: an error message of the server is delivered to every message        *)
(* observer and changes nothing else: the status, the socket handle, the    *)
(* attempt counter, the error text, the sockets and the timers are as       *)
(* before, and no state observer is notified.                               *)
C22_ServerErrorIsOnlyDelivered ==
    [][(lastEvent'.kind = "message" /\ dispatched' = <<"error">>) =>
          /\ received' = [i \in 1..Len(messageHandlers) |->
                             [to |-> messageHandlers[i], message |-> "error"]]
          /\ notified' = <<>>
          /\ scheduled' = <<>>
          /\ UNCHANGED <<state, ws, reconnectAttempts, reconnectTimeout,
                         sockets, timers, messageHandlers>>]_vars

C22_Witness ==
    /\ lastEvent.kind = "message"
    /\ dispatched = <<"error">>
    /\ Len(received) = 2
    /\ received[2] = [to |-> Passive, message |-> "error"]
    /\ state.status = "connected"
    /\ state.error = NullError

(* C23: connect(), disconnect() and send() never throw to their caller,    *)
(* whatever the state of the service, also when the socket constructor      *)
(* throws, when the transmit throws and when a state observer throws while  *)
(* it is notified; send() then returns false.                               *)
C23_NoThrowAcrossApi ==
    /\ lastEvent.kind \in {"connect", "disconnect", "send", "sendFails"} =>
           ~thrown
    /\ lastEvent.kind = "sendFails" => returned = <<FALSE>>

C23_Witness ==
    /\ lastEvent.kind = "connect"
    /\ ~urlOk
    /\ stateHandlers = <<Throwing, Passive>>
    /\ Len(delivered) >= 6
    /\ state.status = "reconnecting"
    /\ ~thrown

(* C24: when the target of the router changes value, the router removes    *)
(* its message observer, then disconnects the service, then, if the new     *)
(* target is not null, connects to the new target and registers its message *)
(* observer again; when the target is set to the value it has, nothing is   *)
(* called and nothing changes.                                              *)
C24_RouterRebuilds ==
    [][lastEvent'.kind = "setTarget" =>
          IF watchedGameId' = watchedGameId
          THEN /\ calls' = <<>>
               /\ UNCHANGED <<ws, gameId, initData, state, sockets, timers,
                              reconnectTimeout, messageHandlers,
                              unsubscribeMessage>>
          ELSE /\ calls' =
                      (IF unsubscribeMessage THEN <<"unsubscribe">> ELSE <<>>)
                      \o (IF watchedGameId' # NullGame
                          THEN <<"connect", "disconnect", "createConnection",
                                 "onMessage">>
                          ELSE <<"disconnect">>)
               /\ watchedGameId' # NullGame =>
                      /\ gameId' = watchedGameId'
                      /\ RouterObserver \in Range(messageHandlers')
                      /\ unsubscribeMessage'
               /\ watchedGameId' = NullGame =>
                      /\ state'.status = "disconnected"
                      /\ RouterObserver \notin Range(messageHandlers')
                      /\ ~unsubscribeMessage']_vars

----------------------------------------------------------------------------
(* The reservation caches *)

\* what a cache entry says about its game: 0 for no reservation, else the
\* expiry of the active reservation
Held(reservation) ==
    IF IsRecord(reservation) /\ reservation.status = RESERVATION_STATUS_ACTIVE
    THEN reservation.expires_at
    ELSE 0

\* what a reservation message says about its game
Effect(message) ==
    IF message.type = "reservation_created" THEN message.expires_at
    ELSE IF message.type = "sync_response" THEN Held(message.reservation)
    ELSE 0

\* the entry that the cache of consumer k keeps for game g
EntryOf(k, g) ==
    IF k = ConnectionStatus THEN reservations[g] ELSE reservationUpdates[g]

\* C25: cache merges are last-writer-wins by server timestamp.  A
\* reservation message (a push or a sync_response) whose stamp is older than
\* the latest stamp its consumer has handled for the game leaves that cache's
\* entry as it is, and one whose stamp is later makes the cache hold what the
\* message says; so the cache holds the update with the latest stamp
\* whatever the order of arrival.
C25_LastWriterWins ==
    [][\A k \in Consumers, g \in GameIds :
          /\ k \in lastMessage'.listeners
          /\ g = lastMessage'.message.game_id
          /\ lastMessage'.message.type \in
                {"reservation_created", "reservation_released",
                 "sync_response"}
          => /\ lastMessage'.message.timestamp < newest[k][g]
                => Held(EntryOf(k, g)') = Held(EntryOf(k, g))
             /\ lastMessage'.message.timestamp > newest[k][g]
                => Held(EntryOf(k, g)') = Effect(lastMessage'.message)]_vars

\* the cache of consumer k reports no reservation for game g
Removed(k, g) ==
    IF k = ConnectionStatus
    THEN reservations[g] = Absent
    ELSE ~useGamesAPI_isGameReserved(Caches, g)

C27_ExpiredNeverReserved ==
    \A g \in GameIds :
        /\ useReservation_isGameReserved(Caches, g)
           => /\ reservations[g].status = RESERVATION_STATUS_ACTIVE
              /\ reservations[g].expires_at > now
        /\ useGamesAPI_isGameReserved(Caches, g)
           => /\ computedReservations(Caches, g).status
                    = RESERVATION_STATUS_ACTIVE
              /\ computedReservations(Caches, g).expires_at > now

----------------------------------------------------------------------------
(* Snapshots *)

\* C28: getState() returns a copy.  Whatever a consumer writes into a
\* snapshot that getState() returned or that an observer was given, the
\* state of the service, and so what a later getState() returns, never
\* holds a value that a consumer wrote.
C28_SnapshotsAreCopies ==
    /\ state.status # "mutated"
    /\ getState(Cur(FALSE)).lastConnectedAt # MutatedDate

----------------------------------------------------------------------------
(* Unsubscribe functions *)

\* C29: calling the function returned by onMessage or onStateChange a
\* second time has no effect.  A call of a function that was called before
\* leaves both observer sets exactly as they are (so as the first call left
\* them, and every other observer stays registered) and finds nothing to
\* remove; the first call removes its own handler and no other.
C29_UnsubscribeTwice ==
    [][/\ /\ lastEvent'.kind \in {"unsubscribeState", "unsubscribeMessage"}
          /\ unsubscribers' = unsubscribers
          => /\ stateHandlers' = stateHandlers
             /\ messageHandlers' = messageHandlers
             /\ returned' = <<FALSE>>
       /\ \A handler \in Handlers :
             /\ lastEvent'.kind = "unsubscribeMessage"
                /\ unsubscribers["message"][handler] = Fresh
                /\ unsubscribers'["message"][handler] = Called
                => /\ messageHandlers' = SetDelete(messageHandlers, handler)
                   /\ stateHandlers' = stateHandlers
             /\ lastEvent'.kind = "unsubscribeState"
                /\ unsubscribers["state"][handler] = Fresh
                /\ unsubscribers'["state"][handler] = Called
                => /\ stateHandlers' = SetDelete(stateHandlers, handler)
                   /\ messageHandlers' = messageHandlers]_vars

\* a second call of an unsubscribe function while another message observer
\* and a state observer are registered
C29_Witness ==
    /\ lastEvent.kind = "unsubscribeMessage"
    /\ returned = <<FALSE>>
    /\ \E handler \in Handlers :
          /\ unsubscribers["message"][handler] = Called
          /\ handler \notin Range(messageHandlers)
    /\ messageHandlers # <<>>
    /\ stateHandlers # <<>>

----------------------------------------------------------------------------
(* Termination of the retries *)

\* C30: when no caller calls connect() or disconnect() after the first
\* connect(), and timers and transport events fire fairly, the service never
\* retries forever: if from some point on every attempt ends with an
\* abnormal closure, it reaches Failed and stays there, and otherwise, the
\* transport of some attempt opening again and again, it is Connected again
\* and again.
C30_RetriesEnd ==
    \/ [](lastCall = "none")
    \/ <>[](state.status = "failed")
    \/ []<>(state.status = "connected")

\* the service gave up after MAX_RECONNECT_ATTEMPTS attempts that all ended
\* with an abnormal closure, with nothing left to run
C30_Witness ==
    /\ lastCall = "connect"
    /\ state.status = "failed"
    /\ reconnectAttempts = MAX_RECONNECT_ATTEMPTS
    /\ state.lastConnectedAt = NullDate
    /\ \A t \in TimerIds : ~timers[t].pending
    /\ \A s \in SocketIds : sockets[s].readyState = "CLOSED"

----------------------------------------------------------------------------
(* The sync request *)

\* C31: the sync_request that is sent when the transport opens again after
\* a disconnection carries, as last_event_timestamp, the timestamp of the
\* last inbound message that was given to the observers, whenever there was
\* such a message.
C31_SyncCarriesLastStamp ==
    /\ lastEvent.kind = "open"
    /\ lastEvent.pre.lastConnectedAt # NullDate
    /\ lastProcessed # UndefinedStamp
    /\ sent # <<>>
    => sent[1].last_event_timestamp = lastProcessed

----------------------------------------------------------------------------
(* The reconnect timer *)

\* C32: at most one reconnect timer is pending at any time, a pending timer
\* is the one whose handle reconnectTimeout holds, and when disconnect()
\* returns no reconnect timer is pending.
C32_OneTrackedTimer ==
    /\ Cardinality(PendingTimers) <= 1
    /\ \A t \in PendingTimers : reconnectTimeout = t
    /\ lastEvent.kind = "disconnect" => PendingTimers = {}

----------------------------------------------------------------------------
(* The current socket *)

\* C33: whenever the status is Connected the service holds a socket and
\* that socket is open.
C33_ConnectedHasOpenSocket ==
    state.status = "connected" =>
        /\ ws # NoSocket
        /\ sockets[ws].readyState = "OPEN"

----------------------------------------------------------------------------
(* The attempt counter *)

\* C34: in every state the reconnectAttempts of the snapshot that observers
\* are given equals the attempt counter of the service; it is 0 when
\* connect() returns and when disconnect() returns.
C34_SnapshotCountsAttempts ==
    /\ state.reconnectAttempts = reconnectAttempts
    /\ lastEvent.kind \in {"connect", "disconnect"} /\ urlOk =>
           state.reconnectAttempts = 0

----------------------------------------------------------------------------
(* Consumers of the shared service *)

\* C35: a consumer that has no watched target leaves the shared connection
\* alone.  When a component is mounted with the target null, and when a
\* component is unmounted, the status, the socket, the sockets' callbacks,
\* the timers and the attempt counter of the service stay as they are.
C35_NoTargetLeavesConnection ==
    [][\/ /\ lastEvent'.kind = "setTarget"
          /\ watchedGameId = UndefinedGame
          /\ watchedGameId' = NullGame
       \/ lastEvent'.kind \in {"unmountRouter", "unmountStatus"}
       => UNCHANGED <<state, ws, gameId, sockets, timers, reconnectTimeout,
                      reconnectAttempts>>]_vars

----------------------------------------------------------------------------
(* The time of the last open *)

\* a socket whose onopen callback is installed opens in this step
OpenHandled ==
    \E s \in SocketIds :
        /\ sockets[s].readyState = "CONNECTING"
        /\ sockets[s].onopen
        /\ sockets'[s].readyState = "OPEN"

\* C36: lastConnectedAt is null at the start, every handled open of the
\* transport sets it, and no other step (connect, disconnect, a change of
\* target, a close, an error, a timer, a message) changes it.
C36_LastConnectedAtSurvives ==
    /\ state.lastConnectedAt = NullDate
    /\ [][IF OpenHandled
          THEN state'.lastConnectedAt = SomeDate
          ELSE state'.lastConnectedAt = state.lastConnectedAt]_vars

\* the router has connected to game 43 after an earlier connection had
\* opened: the time of that open is still in the snapshot
C36_Witness ==
    /\ lastEvent.kind = "setTarget"
    /\ lastEvent.pre.lastConnectedAt = SomeDate
    /\ watchedGameId = 43
    /\ gameId = 43
    /\ state.status = "connecting"
    /\ state.lastConnectedAt = SomeDate

----------------------------------------------------------------------------
(* The error text of the snapshot *)

\* C37: whenever the status is Connected the field error of the snapshot
\* is null: in the snapshot the service holds, and in every snapshot that a
\* transport event publishes to the state observers.
C37_ConnectedHasNoError ==
    /\ state.status = "connected" => state.error = NullError
    /\ \A i \in 1..Len(notified) :
           notified[i].status = "connected" => notified[i].error = NullError

----------------------------------------------------------------------------
(* The range of the attempt counter *)

\* C39: the attempt counter is always one of 0..5, and while the status is
\* Reconnecting it is at least 1 (the counter of the service and the copy
\* of it in the snapshot alike).
C39_CounterInRange ==
    /\ reconnectAttempts \in 0..MAX_RECONNECT_ATTEMPTS
    /\ state.reconnectAttempts \in 0..MAX_RECONNECT_ATTEMPTS
    /\ state.status = "reconnecting" =>
           /\ reconnectAttempts \in 1..MAX_RECONNECT_ATTEMPTS
           /\ state.reconnectAttempts \in 1..MAX_RECONNECT_ATTEMPTS

\* the fifth attempt has just been scheduled
C39_Witness ==
    /\ state.status = "reconnecting"
    /\ reconnectAttempts = MAX_RECONNECT_ATTEMPTS
    /\ lastEvent.kind \in {"close", "fail"}
    /\ lastEvent.pre.reconnectAttempts = MAX_RECONNECT_ATTEMPTS - 1

----------------------------------------------------------------------------
(* Pushed entries and REST data in useGamesAPI *)

\* what the pushed entry of game g says by itself
FromEntry(g) ==
    IF /\ IsRecord(reservationUpdates[g])
       /\ reservationUpdates[g].status = RESERVATION_STATUS_ACTIVE
    THEN reservationUpdates[g]
    ELSE Absent

\* C38: while useGamesAPI has a pushed entry for a game, the reservations
\* map reports for that game what the entry says and nothing else, and a
\* REST response that reports another reservation for the game does not
\* change what the map reports.
C38_PushedEntryDecides ==
    /\ [](\A g \in GameIds :
             reservationUpdates[g] # Absent =>
                 computedReservations(Caches, g) = FromEntry(g))
    /\ [][\A g \in GameIds :
             /\ reservationUpdates[g] # Absent
             /\ reservationUpdates'[g] = reservationUpdates[g]
             /\ gamesQueryData'[g] # gamesQueryData[g]
             => computedReservations(Caches, g)' =
                    computedReservations(Caches, g)]_vars

\* a REST response has just reported an active reservation for a game
\* whose pushed entry says released: the map does not report the game
C38_Witness ==
    \E g \in GameIds :
        /\ lastMessage.message = NoMessage
        /\ reservationUpdates[g] = NullReservation
        /\ IsRecord(gamesQueryData[g])
        /\ gamesQueryData[g].status = RESERVATION_STATUS_ACTIVE
        /\ ~useGamesAPI_isGameReserved(Caches, g)

============================================================================
